---- MODULE Spec2Model ----
(***************************************************************************)
(* A model of ICC_logic.py: the triage classifier, the escalation policy,  *)
(* the price aggregator, the conversation log and the /chat pipeline.      *)
(*                                                                         *)
(* Conventions                                                             *)
(*   - An optional Python value is a sequence: <<>> is None, <<v>> is v.   *)
(*   - Scores are in tenths (2.0 is 20), confidences in hundredths         *)
(*     (0.95 is 95), prices in hundredths of a rupee (45.50 is 4550).      *)
(*   - A text is the record of what the module's regular expressions and   *)
(*     substring tests find in it.                                         *)
(*   - A function that can raise returns [raised, value].                  *)
(***************************************************************************)
EXTENDS Integers, Sequences, FiniteSets, TLC

VARIABLES
    pc,        \* per request: position in chat()
    msg,       \* per request: the request body (text, lat, lon)
    loc,       \* per request: the local variables of chat() and save_memory_entry()
    resp,      \* per request: the HTTP response returned
    calls,     \* per request: the stages invoked so far
    memFile,   \* the content of MEMORY_FILE
    served,    \* number of requests taken so far
    lastSave,  \* the last save_memory_entry call: file before, entry, outcomes
    arg,       \* the input of the function under check
    ret        \* its result

vars == <<pc, msg, loc, resp, calls, memFile, served, lastSave, arg, ret>>

None == <<>>
Some(v) == <<v>>

Min(a, b) == IF a <= b THEN a ELSE b
Max(a, b) == IF a >= b THEN a ELSE b

(***************************************************************************)
(* Bounds of the model                                                     *)
(***************************************************************************)
NumReqs == 2        \* concurrent requests
MaxServed == 2      \* requests served one after another
MaxSaves == 3       \* save_memory_entry calls in a row
MaxPrice == 2       \* scraped prices are 1..MaxPrice
NearCap == 2        \* how far below the log cap a pre-filled log starts
MaxElems == 3       \* elements in an answer of the POI source
MaxDist == 3        \* distances are 1..MaxDist

(***************************************************************************)
(* Program constants                                                       *)
(***************************************************************************)
MEMORY_CAP == 200          \* mem[-200:]
NUM_CRITICAL == 3          \* len(CRITICAL_PATTERNS)
NUM_MEDICAL == 5           \* len(MEDICAL_PATTERNS)
NUM_CARE == 3              \* len(CARE_PATTERNS)
CRITICAL_WEIGHT == 20      \* critical_score += 2.0
MEDICAL_WEIGHT == 15       \* medical_score += 1.5
CARE_WEIGHT == 10          \* care_score += 1.0
SUPPRESSION == 10          \* medical_score - 1.0
CASUAL_CONFIDENCE == 30    \* return "CASUAL", 0.3
CRITICAL_ESCALATE == 70    \* confidence >= 0.7
MEDICAL_ESCALATE == 60     \* confidence >= 0.6
SCRAPE_CAP == 5            \* if len(results) >= 5: break

URGENT_ACTION == "URGENT: Call emergency services immediately (108/112)."
SEEK_ACTION == "Seek medical attention soon."
SUPPORT_ACTION == "Consider talking to someone you trust."
APOLOGY == "I'm having trouble connecting right now. Please try again in a moment."

(***************************************************************************)
(* detect_state                                                            *)
(***************************************************************************)
RECURSIVE PatternScore(_, _, _, _)
\* for pattern in PATTERNS: if re.search(pattern, t): score += weight
PatternScore(i, n, matched, weight) ==
    IF i > n THEN 0
    ELSE (IF i \in matched THEN weight ELSE 0) + PatternScore(i + 1, n, matched, weight)

SuppressedMedical(text, medical_score) ==
    IF text.simple /\ ~text.severe THEN Max(0, medical_score - SUPPRESSION)
    ELSE medical_score

\* detect_state with the medical rule tried before the critical one
detect_state_medical_first(text) ==
    LET critical_score == PatternScore(1, NUM_CRITICAL, text.crit, CRITICAL_WEIGHT)
        medical_score == SuppressedMedical(text,
                             PatternScore(1, NUM_MEDICAL, text.med, MEDICAL_WEIGHT))
        care_score == PatternScore(1, NUM_CARE, text.care, CARE_WEIGHT)
    IN  IF medical_score >= 15
        THEN [state |-> "MEDICAL_MODE", confidence |-> Min(90, 60 + medical_score)]
        ELSE IF critical_score >= 20
        THEN [state |-> "CRITICAL_MODE", confidence |-> Min(95, 70 + critical_score)]
        ELSE IF care_score >= 10
        THEN [state |-> "CARE_MODE", confidence |-> Min(85, 50 + care_score)]
        ELSE [state |-> "CASUAL", confidence |-> CASUAL_CONFIDENCE]

detect_state(text) ==
    LET critical_score == PatternScore(1, NUM_CRITICAL, text.crit, CRITICAL_WEIGHT)
        medical_score == SuppressedMedical(text,
                             PatternScore(1, NUM_MEDICAL, text.med, MEDICAL_WEIGHT))
        care_score == PatternScore(1, NUM_CARE, text.care, CARE_WEIGHT)
    IN  IF critical_score >= 20
        THEN [state |-> "CRITICAL_MODE", confidence |-> Min(95, 70 + critical_score)]
        ELSE IF medical_score >= 15
        THEN [state |-> "MEDICAL_MODE", confidence |-> Min(90, 60 + medical_score)]
        ELSE IF care_score >= 10
        THEN [state |-> "CARE_MODE", confidence |-> Min(85, 50 + care_score)]
        ELSE [state |-> "CASUAL", confidence |-> CASUAL_CONFIDENCE]

(***************************************************************************)
(* recommended_action_for_state                                            *)
(***************************************************************************)
\* recommended_action_for_state with > in place of >= at both thresholds
recommended_action_strict(state, confidence) ==
    IF state = "CRITICAL_MODE" /\ confidence > CRITICAL_ESCALATE
    THEN [escalate |-> TRUE, action_text |-> URGENT_ACTION]
    ELSE IF state = "MEDICAL_MODE" /\ confidence > MEDICAL_ESCALATE
    THEN [escalate |-> TRUE, action_text |-> SEEK_ACTION]
    ELSE IF state = "CARE_MODE"
    THEN [escalate |-> FALSE, action_text |-> SUPPORT_ACTION]
    ELSE [escalate |-> FALSE, action_text |-> ""]

recommended_action_for_state(state, confidence) ==
    IF state = "CRITICAL_MODE" /\ confidence >= CRITICAL_ESCALATE
    THEN [escalate |-> TRUE, action_text |-> URGENT_ACTION]
    ELSE IF state = "MEDICAL_MODE" /\ confidence >= MEDICAL_ESCALATE
    THEN [escalate |-> TRUE, action_text |-> SEEK_ACTION]
    ELSE IF state = "CARE_MODE"
    THEN [escalate |-> FALSE, action_text |-> SUPPORT_ACTION]
    ELSE [escalate |-> FALSE, action_text |-> ""]

(***************************************************************************)
(* scrape_1mg_prices, scrape_pharmeasy_prices, get_medicine_prices         *)
(*                                                                         *)
(* A site outcome is [ok, prices]: ok is FALSE when the request raises or  *)
(* the status is not 200; prices are the priced items of the page in page  *)
(* order, as far as the scraper reads them (it stops at SCRAPE_CAP).       *)
(***************************************************************************)
Take(s, n) == SubSeq(s, 1, Min(n, Len(s)))
Last(s) == s[Len(s)]

ScrapedQuote(price, pharmacy) ==
    [name |-> "listing", price |-> price, pharmacy |-> pharmacy]

scrape_1mg_prices(medicine, site) ==
    IF ~site.ok THEN <<>>
    ELSE LET found == Take(site.prices, SCRAPE_CAP)
         IN  [i \in 1..Len(found) |-> ScrapedQuote(found[i], "1mg")]

scrape_pharmeasy_prices(medicine, site) ==
    IF ~site.ok THEN <<>>
    ELSE LET found == Take(site.prices, SCRAPE_CAP)
         IN  [i \in 1..Len(found) |-> ScrapedQuote(found[i], "PharmEasy")]

Placeholders ==
    << [name |-> "500mg Strip of 10 Tablets", price |-> 4550, pharmacy |-> "1mg"],
       [name |-> "500mg Bottle of 15 Tablets", price |-> 5200, pharmacy |-> "PharmEasy"],
       [name |-> "650mg Strip of 15 Tablets", price |-> 3875, pharmacy |-> "Netmeds"] >>

RECURSIVE InsertByPrice(_, _)
\* q placed after every quote whose price is <= q.price: list.sort is stable
InsertByPrice(q, s) ==
    IF s = <<>> THEN <<q>>
    ELSE IF q.price < Last(s).price
         THEN Append(InsertByPrice(q, SubSeq(s, 1, Len(s) - 1)), Last(s))
         ELSE Append(s, q)

RECURSIVE SortByPrice(_)
\* all_results.sort(key=lambda x: x.get("price", 1e9))
SortByPrice(s) ==
    IF s = <<>> THEN <<>>
    ELSE InsertByPrice(Last(s), SortByPrice(SubSeq(s, 1, Len(s) - 1)))

RECURSIVE FirstMin(_)
\* min(all_results, key=...): the first quote of least price
FirstMin(s) ==
    IF Len(s) = 1 THEN s[1]
    ELSE LET rest == FirstMin(Tail(s))
         IN  IF s[1].price <= rest.price THEN s[1] ELSE rest

RECURSIVE SumPrices(_)
SumPrices(s) == IF s = <<>> THEN 0 ELSE s[1].price + SumPrices(Tail(s))

\* round(statistics.mean(prices), 2): nearest hundredth, a tie to the even one
RoundedMean(s) ==
    LET n == Len(s)
        q == SumPrices(s) \div n
        r == SumPrices(s) % n
    IN  IF 2 * r < n THEN q
        ELSE IF 2 * r > n THEN q + 1
        ELSE IF q % 2 = 0 THEN q ELSE q + 1

Summary(all_results) ==
    IF all_results = <<>> THEN None
    ELSE Some([min_price |-> FirstMin(all_results).price,
               max_price |-> CHOOSE p \in {all_results[i].price : i \in DOMAIN all_results} :
                                \A i \in DOMAIN all_results : all_results[i].price <= p,
               avg_price |-> RoundedMean(all_results),
               best_deal |-> FirstMin(all_results),
               total_options |-> Len(all_results)])

\* get_medicine_prices without the placeholder quotes
get_medicine_prices_no_fallback(medicine, site1, site2) ==
    LET all_results == scrape_1mg_prices(medicine, site1)
                           \o scrape_pharmeasy_prices(medicine, site2)
    IN  [medicine |-> medicine,
         results |-> SortByPrice(all_results),
         summary |-> Summary(all_results)]

\* get_medicine_prices without the final sort
get_medicine_prices_unsorted(medicine, site1, site2) ==
    LET scraped == scrape_1mg_prices(medicine, site1)
                       \o scrape_pharmeasy_prices(medicine, site2)
        all_results == IF scraped = <<>> THEN Placeholders ELSE scraped
    IN  [medicine |-> medicine,
         results |-> all_results,
         summary |-> Summary(all_results)]

get_medicine_prices(medicine, site1, site2) ==
    LET scraped == scrape_1mg_prices(medicine, site1)
                       \o scrape_pharmeasy_prices(medicine, site2)
        all_results == IF scraped = <<>> THEN Placeholders ELSE scraped
    IN  [medicine |-> medicine,
         results |-> SortByPrice(all_results),
         summary |-> Summary(all_results)]

(***************************************************************************)
(* load_memory, save_memory_entry                                          *)
(*                                                                         *)
(* The file is [valid, entries]: valid is FALSE when the file is missing   *)
(* or does not hold JSON (json.load raises), and then entries is <<>>.     *)
(* A read ends "ok" or "error" (open or json.load raises); a write ends    *)
(* "ok", "open_error" (open raises, the file is untouched) or "dump_error" *)
(* (open has truncated the file and json.dump raises before the end).      *)
(***************************************************************************)
ReadOutcomes == {"ok", "error"}
WriteOutcomes == {"ok", "open_error", "dump_error"}

MissingFile == [valid |-> FALSE, entries |-> <<>>]

\* s[-n:]
LastN(s, n) == SubSeq(s, Max(1, Len(s) - n + 1), Len(s))

MakeEntry(ts, user_text, ai_text, state, confidence) ==
    [ts |-> ts, input |-> user_text, output |-> ai_text,
     state |-> state, confidence |-> confidence]

\* with open(MEMORY_FILE, "r") as f: mem = json.load(f)   except: mem = []
ReadMemory(file, rd) ==
    IF rd = "ok" /\ file.valid THEN file.entries ELSE <<>>

load_memory(file, rd, limit) == LastN(ReadMemory(file, rd), limit)

\* WriteMemory writing the log as it was read, before the append of line 57
WriteMemory_before_append(file, mem, wr) ==
    IF wr = "ok"
    THEN [valid |-> TRUE, entries |-> LastN(SubSeq(mem, 1, Len(mem) - 1), MEMORY_CAP)]
    ELSE IF wr = "open_error" THEN file
    ELSE MissingFile

\* with open(MEMORY_FILE, "w") as f: json.dump(mem[-200:], f)   except: warning
WriteMemory(file, mem, wr) ==
    IF wr = "ok" THEN [valid |-> TRUE, entries |-> LastN(mem, MEMORY_CAP)]
    ELSE IF wr = "open_error" THEN file
    ELSE MissingFile

save_memory_entry(file, entry, rd, wr) ==
    WriteMemory(file, Append(ReadMemory(file, rd), entry), wr)

(***************************************************************************)
(* Texts: what the patterns of the module find in a message                *)
(*   empty    the stripped message is empty                                *)
(*   gate     MEDICINE_KEYWORDS.search(text)                               *)
(*   medname  what extract_medicine_name(text) returns                     *)
(*   crit, med, care   the patterns of each family that match              *)
(*   simple, severe    has_simple_symptom, has_severe_modifier             *)
(*   nearby   NEARBY_KEYWORDS.search(text)                                 *)
(***************************************************************************)
Text(id, empty, gate, medname, crit, med, care, simple, severe, nearby) ==
    [id |-> id, empty |-> empty, gate |-> gate, medname |-> medname,
     crit |-> crit, med |-> med, care |-> care,
     simple |-> simple, severe |-> severe, nearby |-> nearby]

Messages ==
    { Text("", TRUE, FALSE, None, {}, {}, {}, FALSE, FALSE, FALSE),
      Text("hello", FALSE, FALSE, None, {}, {}, {}, FALSE, FALSE, FALSE),
      Text("I want to kill myself", FALSE, FALSE, None, {1}, {}, {}, FALSE, FALSE, FALSE),
      Text("I have a mild headache", FALSE, FALSE, None, {}, {}, {}, TRUE, FALSE, FALSE),
      Text("price of paracetamol", FALSE, TRUE, Some("paracetamol"),
           {}, {}, {}, FALSE, FALSE, FALSE),
      Text("I feel anxious and overwhelmed", FALSE, FALSE, None,
           {}, {}, {1}, FALSE, FALSE, FALSE),
      Text("severe chest pain", FALSE, FALSE, None, {}, {2}, {}, FALSE, TRUE, FALSE),
      Text("nearest hospital", FALSE, FALSE, None, {}, {}, {}, FALSE, FALSE, TRUE),
      Text("i will overdose on tablet tonight", FALSE, TRUE, Some("tonight"),
           {3}, {}, {}, FALSE, FALSE, FALSE),
      Text("price of aspirin for chest pain", FALSE, TRUE, Some("aspirin for chest pain"),
           {}, {2}, {}, FALSE, FALSE, FALSE),
      Text("medicine?", FALSE, TRUE, None, {}, {}, {}, FALSE, FALSE, FALSE) }

MEDICINE_KEYWORDS_search(text) == text.gate
NEARBY_KEYWORDS_search(text) == text.nearby
extract_medicine_name(text) == text.medname

(***************************************************************************)
(* build_prompt, generate_llm_response, generate_audio_base64              *)
(***************************************************************************)
Instructions(state) ==
    IF state = "CASUAL" THEN "friendly wellness advice"
    ELSE IF state = "CARE_MODE" THEN "calm empathy"
    ELSE IF state = "MEDICAL_MODE" THEN "focused questions, see a doctor"
    ELSE IF state = "CRITICAL_MODE" THEN "call emergency services"
    ELSE ""

build_prompt(user_message, state, confidence) ==
    [persona |-> "Aries", state |-> state, confidence |-> confidence,
     instructions |-> Instructions(state), user |-> user_message]

BackendOutcomes == {"ok", "error"}

\* try: requests.post ... return response   except: return the apology
generate_llm_response(prompt, llm) ==
    IF llm = "ok" THEN [raised |-> FALSE, value |-> "reply of the language model"]
    ELSE [raised |-> FALSE, value |-> APOLOGY]

\* try: requests.post ... return base64 of the audio   except: return None
generate_audio_base64(text, tts) ==
    IF tts = "ok" THEN [raised |-> FALSE, value |-> Some(<<"mp3", text>>)]
    ELSE [raised |-> FALSE, value |-> None]

(***************************************************************************)
(* overpass_nearby                                                         *)
(*                                                                         *)
(* A POI outcome is [ok, elements]: ok is FALSE when the request or the    *)
(* JSON parse raises. An element is [id, coords, wellformed, d]: coords    *)
(* says whether lat and lon resolve, wellformed is FALSE when reading the  *)
(* element raises (tags that are no mapping, a coordinate that is no       *)
(* number), d is int(haversine(...)) for it.                               *)
(***************************************************************************)
Element(id, coords, wellformed, d) ==
    [id |-> id, coords |-> coords, wellformed |-> wellformed, d |-> d]

\* s[:n]
PyPrefix(s, n) ==
    IF n >= 0 THEN SubSeq(s, 1, Min(n, Len(s)))
    ELSE SubSeq(s, 1, Max(0, Len(s) + n))

RECURSIVE InsertByDistance(_, _)
InsertByDistance(p, s) ==
    IF s = <<>> THEN <<p>>
    ELSE IF p.distance_m < Last(s).distance_m
         THEN Append(InsertByDistance(p, SubSeq(s, 1, Len(s) - 1)), Last(s))
         ELSE Append(s, p)

RECURSIVE SortByDistance(_)
\* sorted(places, key=lambda x: x["distance_m"])
SortByDistance(s) ==
    IF s = <<>> THEN <<>>
    ELSE InsertByDistance(Last(s), SortByDistance(SubSeq(s, 1, Len(s) - 1)))

RECURSIVE PlacesOf(_)
\* the loop over elements: those without coordinates are skipped
PlacesOf(elements) ==
    IF elements = <<>> THEN <<>>
    ELSE LET el == elements[1]
         IN  IF el.coords
             THEN <<[osm_id |-> el.id, distance_m |-> el.d]>> \o PlacesOf(Tail(elements))
             ELSE PlacesOf(Tail(elements))

overpass_nearby(lat, lon, radius, limit, poi) ==
    IF ~poi.ok
    THEN [raised |-> FALSE, value |-> [ok |-> FALSE, error |-> "error", places |-> <<>>]]
    ELSE IF \E i \in DOMAIN poi.elements : ~poi.elements[i].wellformed
    THEN [raised |-> TRUE, value |-> [ok |-> FALSE, error |-> "raised", places |-> <<>>]]
    ELSE [raised |-> FALSE,
          value |-> [ok |-> TRUE, error |-> "",
                     places |-> PyPrefix(SortByDistance(PlacesOf(poi.elements)), limit)]]

PoiOutcomes ==
    { [ok |-> FALSE, elements |-> <<>>],
      [ok |-> TRUE, elements |-> <<>>],
      [ok |-> TRUE, elements |-> <<Element(1, TRUE, TRUE, 900), Element(2, TRUE, TRUE, 300)>>],
      [ok |-> TRUE, elements |-> <<Element(3, FALSE, TRUE, 0)>>],
      [ok |-> TRUE, elements |-> <<Element(4, TRUE, FALSE, 0)>>] }

(***************************************************************************)
(* The pieces of chat()                                                    *)
(***************************************************************************)
\* medicine_name = None; if MEDICINE_KEYWORDS.search(user_text): extract
MedicineName(text) ==
    IF MEDICINE_KEYWORDS_search(text) THEN extract_medicine_name(text) ELSE None

\* if escalate or NEARBY_KEYWORDS.search(user_text): want_nearby = True
WantNearby(escalate, text) == escalate \/ NEARBY_KEYWORDS_search(text)

\* NeedLocation with "and" in place of "or"
NeedLocation_both_missing(want_nearby, lat, lon) ==
    want_nearby /\ (lat = None /\ lon = None)

\* if want_nearby and (lat is None or lon is None)
NeedLocation(want_nearby, lat, lon) ==
    want_nearby /\ (lat = None \/ lon = None)

\* NearestLookup without the try/except of lines 642-647
NearestLookup_unguarded(lat, lon, poi) ==
    LET nr == overpass_nearby(lat[1], lon[1], 5000, 5, poi)
    IN  IF nr.raised THEN [raised |-> TRUE, value |-> None]
        ELSE IF nr.value.ok /\ nr.value.places # <<>>
        THEN [raised |-> FALSE, value |-> Some(nr.value.places[1])]
        ELSE [raised |-> FALSE, value |-> None]

\* try: nr = overpass_nearby(...); if ok and places: nearest = places[0]   except: warning
NearestLookup(lat, lon, poi) ==
    LET nr == overpass_nearby(lat[1], lon[1], 5000, 5, poi)
    IN  IF nr.raised THEN [raised |-> FALSE, value |-> None]
        ELSE IF nr.value.ok /\ nr.value.places # <<>>
        THEN [raised |-> FALSE, value |-> Some(nr.value.places[1])]
        ELSE [raised |-> FALSE, value |-> None]

\* Synthesize without the "if escalate" condition
Synthesize_always(escalate, reply, tts) ==
    [called |-> TRUE, audio |-> generate_audio_base64(reply, tts)]

\* audio_b64 = generate_audio_base64(reply) if escalate else None
Synthesize(escalate, reply, tts) ==
    IF escalate
    THEN [called |-> TRUE, audio |-> generate_audio_base64(reply, tts)]
    ELSE [called |-> FALSE, audio |-> [raised |-> FALSE, value |-> None]]

ErrorResponse(code, reason) == [status |-> code, body |-> [error |-> reason]]

MedicineResponse(price_data) ==
    [status |-> 200,
     body |-> [reply |-> "price summary", audio |-> None, state |-> "MEDICINE_QUERY",
               confidence |-> 100, escalate |-> FALSE, medicine_data |-> price_data,
               recommended_action |-> ""]]

\* round(confidence, 2) leaves a confidence in hundredths as it is
NeedLocationResponse(l) ==
    [status |-> 200,
     body |-> [reply |-> l.reply, audio |-> None, state |-> l.state,
               confidence |-> l.confidence, escalate |-> l.escalate,
               recommended_action |-> l.action_text, nearest |-> None,
               need_location |-> TRUE]]

FinalResponse(l) ==
    [status |-> 200,
     body |-> [reply |-> l.reply, audio |-> l.audio_b64, state |-> l.state,
               confidence |-> l.confidence, escalate |-> l.escalate,
               recommended_action |-> l.action_text, nearest |-> l.nearest]]

(***************************************************************************)
(* Requests, and the state every specification starts from                 *)
(***************************************************************************)
Reqs == 1..NumReqs

NoResponse == [status |-> 0, body |-> [error |-> "no response yet"]]

NoLocals ==
    [medicine_name |-> None, state |-> "", confidence |-> 0, reply |-> "",
     escalate |-> FALSE, action_text |-> "", want_nearby |-> FALSE,
     nearest |-> None, audio_b64 |-> None, mem |-> <<>>, ts |-> 0,
     llm |-> "", tts |-> "", poi |-> "", rd |-> "", wr |-> "", llm_calls |-> 0]

NoMessage == [text |-> None, lat |-> None, lon |-> None]

NoSave == [n |-> 0, before |-> MissingFile, entry |-> None, rd |-> "", wr |-> ""]

NoRequests ==
    /\ pc = [r \in Reqs |-> "idle"]
    /\ msg = [r \in Reqs |-> NoMessage]
    /\ loc = [r \in Reqs |-> NoLocals]
    /\ resp = [r \in Reqs |-> NoResponse]
    /\ calls = [r \in Reqs |-> {}]
    /\ served = 0

chatVars == <<pc, msg, loc, resp, calls, served>>

(***************************************************************************)
(* chat(): one action per stage of the handler, for request r.             *)
(* An exception that leaves chat() ends the request "aborted" (a 500).     *)
(***************************************************************************)
Coordinates == {None, Some(0)}

ChatSites ==
    { [ok |-> FALSE, prices |-> <<>>],
      [ok |-> TRUE, prices |-> <<>>],
      [ok |-> TRUE, prices |-> <<2, 1>>] }

Abort(r) ==
    /\ pc' = [pc EXCEPT ![r] = "aborted"]
    /\ resp' = [resp EXCEPT ![r] = ErrorResponse(500, "Internal Server Error")]

\* lines 574-586: read the body, refuse an empty message, run the medicine gate
ChatStart(r, texts, limit) ==
    /\ pc[r] = "idle"
    /\ served < limit
    /\ served' = served + 1
    /\ \E text \in texts, lat \in Coordinates, lon \in Coordinates :
          /\ msg' = [msg EXCEPT ![r] = [text |-> Some(text), lat |-> lat, lon |-> lon]]
          /\ IF text.empty
             THEN /\ resp' = [resp EXCEPT ![r] = ErrorResponse(400, "Empty message")]
                  /\ pc' = [pc EXCEPT ![r] = "done"]
                  /\ UNCHANGED <<loc, calls>>
             ELSE LET medicine_name == MedicineName(text)
                  IN  /\ loc' = [loc EXCEPT ![r].medicine_name = medicine_name]
                      /\ calls' = [calls EXCEPT ![r] =
                                      IF MEDICINE_KEYWORDS_search(text)
                                      THEN {"extractor"} ELSE {}]
                      /\ pc' = [pc EXCEPT ![r] =
                                   IF medicine_name # None THEN "medicine" ELSE "triage"]
                      /\ UNCHANGED resp
    /\ UNCHANGED <<memFile, lastSave, arg, ret>>

\* lines 588-611: price the medicine and answer at once
ChatMedicine(r) ==
    /\ pc[r] = "medicine"
    /\ \E site1 \in ChatSites, site2 \in ChatSites :
          LET price_data == get_medicine_prices(loc[r].medicine_name[1], site1, site2)
          IN  /\ calls' = [calls EXCEPT ![r] = @ \cup {"aggregator"}]
              /\ IF price_data.results # <<>>
                 THEN /\ resp' = [resp EXCEPT ![r] = MedicineResponse(price_data)]
                      /\ pc' = [pc EXCEPT ![r] = "done"]
                 ELSE /\ pc' = [pc EXCEPT ![r] = "triage"]
                      /\ UNCHANGED resp
    /\ UNCHANGED <<msg, loc, memFile, served, lastSave, arg, ret>>

\* lines 613-639: classify, compose, call the language model, decide escalation,
\* and answer at once when a location is wanted and none was sent
ChatTriage(r) ==
    /\ pc[r] = "triage"
    /\ \E llm \in BackendOutcomes :
          LET text == msg[r].text[1]
              d == detect_state(text)
              prompt == build_prompt(text.id, d.state, d.confidence)
              g == generate_llm_response(prompt, llm)
              a == recommended_action_for_state(d.state, d.confidence)
              want_nearby == WantNearby(a.escalate, text)
              l == [loc[r] EXCEPT !.state = d.state, !.confidence = d.confidence,
                                  !.reply = g.value, !.escalate = a.escalate,
                                  !.action_text = a.action_text,
                                  !.want_nearby = want_nearby, !.llm = llm,
                                  !.llm_calls = @ + 1]
          IN  IF g.raised
              THEN /\ Abort(r)
                   /\ calls' = [calls EXCEPT ![r] = @ \cup {"classifier", "composer", "llm"}]
                   /\ UNCHANGED loc
              ELSE /\ loc' = [loc EXCEPT ![r] = l]
                   /\ calls' = [calls EXCEPT ![r] =
                                   @ \cup {"classifier", "composer", "llm", "policy"}]
                   /\ IF NeedLocation(want_nearby, msg[r].lat, msg[r].lon)
                      THEN /\ resp' = [resp EXCEPT ![r] = NeedLocationResponse(l)]
                           /\ pc' = [pc EXCEPT ![r] = "done"]
                      ELSE /\ pc' = [pc EXCEPT ![r] =
                                        IF want_nearby /\ msg[r].lat # None /\ msg[r].lon # None
                                        THEN "nearby" ELSE "speak"]
                           /\ UNCHANGED resp
    /\ UNCHANGED <<msg, memFile, served, lastSave, arg, ret>>

\* how the POI source answered
PoiKind(poi) ==
    IF ~poi.ok THEN "error"
    ELSE IF \E i \in DOMAIN poi.elements : ~poi.elements[i].wellformed THEN "raised"
    ELSE IF \A i \in DOMAIN poi.elements : ~poi.elements[i].coords THEN "nothing"
    ELSE "found"

\* lines 641-647: look for the nearest facility
ChatNearby(r) ==
    /\ pc[r] = "nearby"
    /\ \E poi \in PoiOutcomes :
          LET n == NearestLookup(msg[r].lat, msg[r].lon, poi)
          IN  /\ calls' = [calls EXCEPT ![r] = @ \cup {"locator"}]
              /\ IF n.raised
                 THEN /\ Abort(r)
                      /\ UNCHANGED loc
                 ELSE /\ loc' = [loc EXCEPT ![r].nearest = n.value,
                                            ![r].poi = PoiKind(poi)]
                      /\ pc' = [pc EXCEPT ![r] = "speak"]
                      /\ UNCHANGED resp
    /\ UNCHANGED <<msg, memFile, served, lastSave, arg, ret>>

\* line 648: speech for an escalation
ChatSpeak(r) ==
    /\ pc[r] = "speak"
    /\ \E tts \in BackendOutcomes :
          LET sp == Synthesize(loc[r].escalate, loc[r].reply, tts)
          IN  /\ sp.called \/ tts = "ok"    \* no call made: the backend's state plays no part
              /\ calls' = [calls EXCEPT ![r] = IF sp.called THEN @ \cup {"speech"} ELSE @]
              /\ IF sp.audio.raised
                 THEN /\ Abort(r)
                      /\ UNCHANGED loc
                 ELSE /\ loc' = [loc EXCEPT ![r].audio_b64 = sp.audio.value,
                                            ![r].tts = IF sp.called THEN tts ELSE ""]
                      /\ pc' = [pc EXCEPT ![r] = "save_read"]
                      /\ UNCHANGED resp
    /\ UNCHANGED <<msg, memFile, served, lastSave, arg, ret>>

\* lines 51-56 of save_memory_entry, called at line 651: read the log
SaveRead(r) ==
    /\ pc[r] = "save_read"
    /\ \E rd \in ReadOutcomes :
          loc' = [loc EXCEPT ![r].mem = ReadMemory(memFile, rd), ![r].rd = rd]
    /\ calls' = [calls EXCEPT ![r] = @ \cup {"persistence"}]
    /\ pc' = [pc EXCEPT ![r] = "save_write"]
    /\ UNCHANGED <<msg, resp, memFile, served, lastSave, arg, ret>>

\* lines 57-62 of save_memory_entry: append and write the last 200 back
SaveWrite(r) ==
    /\ pc[r] = "save_write"
    /\ \E wr \in WriteOutcomes :
          LET entry == MakeEntry(0, msg[r].text[1].id, loc[r].reply,
                                 loc[r].state, loc[r].confidence)
          IN  /\ memFile' = WriteMemory(memFile, Append(loc[r].mem, entry), wr)
              /\ loc' = [loc EXCEPT ![r].wr = wr]
    /\ pc' = [pc EXCEPT ![r] = "respond"]
    /\ UNCHANGED <<msg, resp, calls, served, lastSave, arg, ret>>

\* lines 655-665: the final payload
ChatRespond(r) ==
    /\ pc[r] = "respond"
    /\ resp' = [resp EXCEPT ![r] = FinalResponse(loc[r])]
    /\ pc' = [pc EXCEPT ![r] = "done"]
    /\ UNCHANGED <<msg, loc, calls, memFile, served, lastSave, arg, ret>>

\* the response is sent; the worker takes the next request
ChatFinish(r) ==
    /\ pc[r] = "done"
    /\ served < MaxServed
    /\ pc' = [pc EXCEPT ![r] = "idle"]
    /\ msg' = [msg EXCEPT ![r] = NoMessage]
    /\ loc' = [loc EXCEPT ![r] = NoLocals]
    /\ resp' = [resp EXCEPT ![r] = NoResponse]
    /\ calls' = [calls EXCEPT ![r] = {}]
    /\ UNCHANGED <<memFile, served, lastSave, arg, ret>>

InitChat ==
    /\ NoRequests
    /\ memFile = MissingFile
    /\ lastSave = NoSave
    /\ arg = None
    /\ ret = None

(***************************************************************************)
(* SpecChat: one worker serving requests one after another                 *)
(***************************************************************************)
Workers == {1}

ChatStep(r) ==
    \/ ChatMedicine(r)
    \/ ChatTriage(r)
    \/ ChatNearby(r)
    \/ ChatSpeak(r)
    \/ SaveRead(r)
    \/ SaveWrite(r)
    \/ ChatRespond(r)

NextChat ==
    \E r \in Workers :
        \/ ChatStart(r, Messages, MaxServed)
        \/ ChatStep(r)
        \/ ChatFinish(r)

SpecChat == InitChat /\ [][NextChat]_vars

Answered(r) == pc[r] = "done" /\ resp[r].status = 200

MedicineFound(text) == text.gate /\ text.medname # None

\* C2: a request whose text passes the medicine gate and yields a name runs the
\* Price Aggregator and returns the price summary at once, no later stage being
\* invoked; any other request with a message goes on to the classifier.
C2_MedicineShortCircuit ==
    \A r \in Reqs :
        (msg[r].text # None /\ ~msg[r].text[1].empty) =>
            IF MedicineFound(msg[r].text[1])
            THEN /\ pc[r] \in {"medicine", "done"}
                 /\ calls[r] \subseteq {"extractor", "aggregator"}
                 /\ pc[r] = "done" =>
                       /\ "aggregator" \in calls[r]
                       /\ resp[r].status = 200
                       /\ resp[r].body.state = "MEDICINE_QUERY"
                       /\ resp[r].body.reply = "price summary"
                       /\ "medicine_data" \in DOMAIN resp[r].body
            ELSE /\ pc[r] # "medicine"
                 /\ "aggregator" \notin calls[r]
                 /\ pc[r] # "triage" => "classifier" \in calls[r]

\* both retail sources fail and the price summary is still the answer
C2_Witness ==
    \E r \in Reqs :
        /\ Answered(r)
        /\ MedicineFound(msg[r].text[1])
        /\ resp[r].body.state = "MEDICINE_QUERY"
        /\ resp[r].body.medicine_data.results[1].pharmacy = "Netmeds"

\* C3: want_nearby is exactly escalate or a nearby-keyword match, and with
\* want_nearby and a missing latitude or longitude the response has
\* need_location true and nearest null, the locator never being invoked.
C3_NeedLocation ==
    \A r \in Reqs :
        "policy" \in calls[r] =>
            /\ loc[r].want_nearby = (loc[r].escalate \/ msg[r].text[1].nearby)
            /\ (loc[r].want_nearby /\ (msg[r].lat = None \/ msg[r].lon = None)) =>
                  /\ Answered(r)
                  /\ "need_location" \in DOMAIN resp[r].body
                  /\ resp[r].body.need_location = TRUE
                  /\ resp[r].body.nearest = None
                  /\ "locator" \notin calls[r]

\* an escalation with the latitude missing and the longitude sent
C3_Witness ==
    \E r \in Reqs :
        /\ Answered(r)
        /\ loc[r].escalate
        /\ msg[r].lat = None
        /\ msg[r].lon # None
        /\ "need_location" \in DOMAIN resp[r].body

C5_SpeechIffEscalate ==
    \A r \in Reqs :
        (pc[r] = "done" /\ "policy" \in calls[r]) =>
            ("speech" \in calls[r] <=> loc[r].escalate)

\* C5 amended: a request with escalate false never calls the speech backend, and
\* a finished request has called it if and only if escalate is true and both
\* coordinates were sent (an escalation without them returns need_location before
\* the speech stage); the audio of the response is what that call returned.
C5_SpeechIffEscalateLocated ==
    \A r \in Reqs :
        "policy" \in calls[r] =>
            /\ ~loc[r].escalate => "speech" \notin calls[r]
            /\ pc[r] = "done" =>
                  /\ "speech" \in calls[r]
                         <=> (loc[r].escalate /\ msg[r].lat # None /\ msg[r].lon # None)
                  /\ "speech" \in calls[r] =>
                         /\ resp[r].body.audio = loc[r].audio_b64
                         /\ loc[r].tts = "ok" => resp[r].body.audio # None
                  /\ "speech" \notin calls[r] => resp[r].body.audio = None

\* an escalation with coordinates whose reply was synthesized
C5_Witness ==
    \E r \in Reqs :
        /\ Answered(r)
        /\ loc[r].escalate
        /\ "speech" \in calls[r]
        /\ resp[r].body.audio # None

ResponseFields ==
    {"reply", "audio", "state", "confidence", "escalate", "recommended_action",
     "nearest", "need_location"}

\* C7: every response to a request with a message carries all eight fields
\* reply, audio, state, confidence, escalate, recommended_action, nearest and
\* need_location, on every exit path.
C7_EightFields ==
    \A r \in Reqs :
        Answered(r) => ResponseFields \subseteq DOMAIN resp[r].body

\* C12: when the text passes the medicine gate and yields a name, the response
\* always has state MEDICINE_QUERY, confidence 1.0, escalate false and an empty
\* recommended_action, also for a text that matches a critical or a medical
\* pattern; the fall-through from a found name to the classifier is never taken.
C12_MedicineBeforeTriage ==
    \A r \in Reqs :
        (msg[r].text # None /\ MedicineFound(msg[r].text[1])) =>
            /\ pc[r] # "triage"
            /\ "classifier" \notin calls[r]
            /\ loc[r].state = ""
            /\ pc[r] = "done" =>
                  /\ resp[r].status = 200
                  /\ resp[r].body.state = "MEDICINE_QUERY"
                  /\ resp[r].body.confidence = 100
                  /\ resp[r].body.escalate = FALSE
                  /\ resp[r].body.recommended_action = ""

\* a text with a found name that also matches a critical pattern, both retail
\* sources failing
C12_Witness ==
    \E r \in Reqs :
        /\ Answered(r)
        /\ MedicineFound(msg[r].text[1])
        /\ msg[r].text[1].crit # {}
        /\ resp[r].body.state = "MEDICINE_QUERY"
        /\ resp[r].body.escalate = FALSE
        /\ Len(resp[r].body.medicine_data.results) = 3

\* what request r stores in the log
EntryOf(r) ==
    MakeEntry(0, msg[r].text[1].id, loc[r].reply, loc[r].state, loc[r].confidence)

\* C13: a request that ends with the need_location response has called the
\* language model exactly once and returns its reply, and leaves the log as it
\* was; a medicine reply leaves the log as it was too; the log changes only in the
\* write of a request on its way to the final payload, and when it grows it grows
\* by that request's one entry.
C13_LogOnlyOnFullPipeline ==
    [][ /\ \A r \in Reqs :
              /\ (pc[r] # "done" /\ pc'[r] = "done"
                     /\ "need_location" \in DOMAIN resp'[r].body) =>
                    /\ memFile' = memFile
                    /\ "persistence" \notin calls'[r]
                    /\ loc'[r].wr = ""
                    /\ loc'[r].llm_calls = 1
                    /\ resp'[r].body.reply = loc'[r].reply
                    /\ resp'[r].body.reply =
                          (IF loc'[r].llm = "ok" THEN "reply of the language model"
                           ELSE APOLOGY)
              /\ (pc[r] = "medicine" /\ pc'[r] = "done") =>
                    /\ memFile' = memFile
                    /\ "persistence" \notin calls'[r]
                    /\ loc'[r].wr = ""
                    /\ loc'[r].llm_calls = 0
              /\ (pc[r] = "save_write" /\ pc'[r] = "respond"
                     /\ loc[r].rd = "ok" /\ loc'[r].wr = "ok"
                     /\ Len(memFile.entries) < MEMORY_CAP) =>
                    memFile'.entries = Append(memFile.entries, EntryOf(r))
        /\ memFile' # memFile =>
              \E r \in Reqs : pc[r] = "save_write" /\ pc'[r] = "respond"
        /\ Len(memFile'.entries) > Len(memFile.entries) =>
              Len(memFile'.entries) = Len(memFile.entries) + 1
      ]_vars

\* a need_location response, one language-model call made, while the log holds
\* the entry of an earlier request
C13_Witness ==
    \E r \in Reqs :
        /\ Answered(r)
        /\ "need_location" \in DOMAIN resp[r].body
        /\ loc[r].llm_calls = 1
        /\ "persistence" \notin calls[r]
        /\ Len(memFile.entries) = 1

(***************************************************************************)
(* SpecConc: NumReqs requests handled by concurrent threads                *)
(***************************************************************************)
NextConc ==
    \E r \in Reqs :
        \/ ChatStart(r, Messages, NumReqs)
        \/ ChatStep(r)

SpecConc == InitChat /\ [][NextConc]_vars

\* C1: writes to the log are serialized, so no update is lost: once every
\* request has finished, no read or write of the log having failed, the log
\* holds one entry for every request that wrote it.
C1_NoLostUpdate ==
    ( /\ \A r \in Reqs : pc[r] = "done"
      /\ \A r \in Reqs : loc[r].rd \in {"", "ok"} /\ loc[r].wr \in {"", "ok"} )
    => Len(memFile.entries) = Cardinality({r \in Reqs : loc[r].wr = "ok"})

(***************************************************************************)
(* SpecDetect: detect_state on every combination of matched patterns       *)
(***************************************************************************)
DetectInputs ==
    [crit : SUBSET (1..NUM_CRITICAL), med : SUBSET (1..NUM_MEDICAL),
     care : SUBSET (1..NUM_CARE), simple : BOOLEAN, severe : BOOLEAN]

InitDetect ==
    /\ NoRequests
    /\ memFile = MissingFile
    /\ lastSave = NoSave
    /\ arg \in DetectInputs
    /\ ret = None

CallDetectState ==
    /\ ret = None
    /\ ret' = Some(detect_state(arg))
    /\ UNCHANGED <<chatVars, memFile, lastSave, arg>>

SpecDetect == InitDetect /\ [][CallDetectState]_vars

\* C8: detect_state decides by strict priority: a critical match gives
\* CRITICAL_MODE with confidence in [0.7, 0.95] whatever else matches; else a
\* suppressed medical score >= 1.5 gives MEDICAL_MODE at min(0.90, 0.6 + 0.1*score);
\* else a care match gives CARE_MODE at min(0.85, 0.5 + 0.1*score); else CASUAL at 0.3.
C8_DetectPriority ==
    ret # None =>
        LET out == ret[1]
            ncrit == Cardinality(arg.crit)
            raw == 15 * Cardinality(arg.med)
            medical == IF arg.simple /\ ~arg.severe
                       THEN (IF raw >= 10 THEN raw - 10 ELSE 0)
                       ELSE raw
            care == 10 * Cardinality(arg.care)
        IN  IF ncrit >= 1
            THEN /\ out.state = "CRITICAL_MODE"
                 /\ out.confidence >= 70 /\ out.confidence <= 95
            ELSE IF medical >= 15
            THEN /\ out.state = "MEDICAL_MODE"
                 /\ out.confidence = (IF 60 + medical <= 90 THEN 60 + medical ELSE 90)
            ELSE IF care >= 10
            THEN /\ out.state = "CARE_MODE"
                 /\ out.confidence = (IF 50 + care <= 85 THEN 50 + care ELSE 85)
            ELSE /\ out.state = "CASUAL"
                 /\ out.confidence = 30

\* a critical pattern and every medical and care pattern match: CRITICAL_MODE wins
C8_Witness ==
    /\ ret # None
    /\ Cardinality(arg.crit) = 1
    /\ arg.med = 1..NUM_MEDICAL
    /\ arg.care = 1..NUM_CARE
    /\ ret[1].state = "CRITICAL_MODE"

(***************************************************************************)
(* SpecAction: recommended_action_for_state on every state and confidence  *)
(***************************************************************************)
States == {"CASUAL", "CARE_MODE", "MEDICAL_MODE", "CRITICAL_MODE"}

ActionInputs == [state : States \cup {"MEDICINE_QUERY"}, confidence : 0..100]

InitAction ==
    /\ NoRequests
    /\ memFile = MissingFile
    /\ lastSave = NoSave
    /\ arg \in ActionInputs
    /\ ret = None

CallRecommendedAction ==
    /\ ret = None
    /\ ret' = Some(recommended_action_for_state(arg.state, arg.confidence))
    /\ UNCHANGED <<chatVars, memFile, lastSave, arg>>

SpecAction == InitAction /\ [][CallRecommendedAction]_vars

\* C9: recommended_action_for_state follows the ordered rules: CRITICAL_MODE at
\* confidence >= 0.7 escalates with the emergency-call message; else MEDICAL_MODE at
\* confidence >= 0.6 escalates with the seek-care message; else CARE_MODE does not
\* escalate and carries a non-empty support message; anything else does not escalate
\* and carries an empty message. CASUAL never escalates.
C9_EscalationRules ==
    ret # None =>
        LET out == ret[1]
        IN  /\ (arg.state = "CRITICAL_MODE" /\ arg.confidence >= 70)
                  => (out.escalate /\ out.action_text = URGENT_ACTION)
            /\ (arg.state = "CRITICAL_MODE" /\ arg.confidence < 70)
                  => (~out.escalate /\ out.action_text = "")
            /\ (arg.state = "MEDICAL_MODE" /\ arg.confidence >= 60)
                  => (out.escalate /\ out.action_text = SEEK_ACTION)
            /\ (arg.state = "MEDICAL_MODE" /\ arg.confidence < 60)
                  => (~out.escalate /\ out.action_text = "")
            /\ arg.state = "CARE_MODE"
                  => (~out.escalate /\ out.action_text = SUPPORT_ACTION
                      /\ out.action_text # "")
            /\ arg.state \notin {"CRITICAL_MODE", "MEDICAL_MODE", "CARE_MODE"}
                  => (~out.escalate /\ out.action_text = "")
            /\ arg.state = "CASUAL" => ~out.escalate

\* CRITICAL_MODE at exactly 0.7 escalates
C9_Witness ==
    /\ ret # None
    /\ arg.state = "CRITICAL_MODE"
    /\ arg.confidence = 70
    /\ ret[1].escalate

(***************************************************************************)
(* SpecPrices: get_medicine_prices on every outcome of the two sources     *)
(***************************************************************************)
PriceLists == UNION {[1..n -> 1..MaxPrice] : n \in 0..SCRAPE_CAP}

SiteOutcomes ==
    {[ok |-> FALSE, prices |-> <<>>]} \cup [ok : {TRUE}, prices : PriceLists]

InitPrices ==
    /\ NoRequests
    /\ memFile = MissingFile
    /\ lastSave = NoSave
    /\ arg \in [medicine : {"paracetamol"}, site1 : SiteOutcomes, site2 : SiteOutcomes]
    /\ ret = None

CallGetMedicinePrices ==
    /\ ret = None
    /\ ret' = Some(get_medicine_prices(arg.medicine, arg.site1, arg.site2))
    /\ UNCHANGED <<chatVars, memFile, lastSave, arg>>

SpecPrices == InitPrices /\ [][CallGetMedicinePrices]_vars

\* what a source contributes: nothing when it fails
Contribution(site) == IF site.ok THEN site.prices ELSE <<>>

CountIn(s, pharmacy, price) ==
    Cardinality({i \in DOMAIN s : s[i].pharmacy = pharmacy /\ s[i].price = price})

CountPrice(prices, price) == Cardinality({i \in DOMAIN prices : prices[i] = price})

\* C10: get_medicine_prices never returns an empty results list; the 3 placeholder
\* quotes stand in exactly when both sources contribute nothing, and otherwise the
\* results are the quotes of both sources, a failed source not hiding the other;
\* when summary is present every price lies in [min_price, max_price], best_deal is
\* a quote of least price, and results is in ascending order of price.
C10_PriceAggregate ==
    ret # None =>
        LET out == ret[1]
            res == out.results
            c1 == Contribution(arg.site1)
            c2 == Contribution(arg.site2)
        IN  /\ res # <<>>
            /\ (c1 = <<>> /\ c2 = <<>>)
                  => /\ Len(res) = 3
                     /\ {res[i].pharmacy : i \in DOMAIN res} = {"1mg", "PharmEasy", "Netmeds"}
                     /\ {res[i].price : i \in DOMAIN res} = {4550, 5200, 3875}
            /\ ~(c1 = <<>> /\ c2 = <<>>)
                  => /\ Len(res) = Len(c1) + Len(c2)
                     /\ \A p \in 1..MaxPrice :
                           /\ CountIn(res, "1mg", p) = CountPrice(c1, p)
                           /\ CountIn(res, "PharmEasy", p) = CountPrice(c2, p)
            /\ out.summary # None
                  => LET sm == out.summary[1]
                     IN  /\ \A i \in DOMAIN res :
                               sm.min_price <= res[i].price /\ res[i].price <= sm.max_price
                         /\ \E i \in DOMAIN res : res[i] = sm.best_deal
                         /\ \A i \in DOMAIN res : sm.best_deal.price <= res[i].price
                         /\ sm.best_deal.price = sm.min_price
            /\ \A i, j \in DOMAIN res : i < j => res[i].price <= res[j].price

\* the first source fails and the second lists a dearer quote before a cheaper one
C10_Witness ==
    /\ ret # None
    /\ ~arg.site1.ok
    /\ arg.site2.ok
    /\ arg.site2.prices = <<2, 1>>
    /\ Len(ret[1].results) = 2
    /\ ret[1].summary # None

(***************************************************************************)
(* SpecLog: save_memory_entry calls one after another                      *)
(***************************************************************************)
\* the log after n saves that all succeeded
FilledLog(n) ==
    IF n = 0 THEN MissingFile
    ELSE [valid |-> TRUE,
          entries |-> LastN([i \in 1..n |-> MakeEntry(i, "hello", "hi", "CASUAL", 30)],
                            MEMORY_CAP)]

InitLog ==
    /\ NoRequests
    /\ \E n \in {0} \cup ((MEMORY_CAP - NearCap)..MEMORY_CAP) :
          /\ memFile = FilledLog(n)
          /\ arg = n
    /\ lastSave = NoSave
    /\ ret = None

SaveEntry ==
    /\ lastSave.n < MaxSaves
    /\ \E rd \in ReadOutcomes, wr \in WriteOutcomes :
          LET entry == MakeEntry(arg + lastSave.n + 1, "hello", "hi", "CASUAL", 30)
          IN  /\ memFile' = save_memory_entry(memFile, entry, rd, wr)
              /\ lastSave' = [n |-> lastSave.n + 1, before |-> memFile,
                              entry |-> Some(entry), rd |-> rd, wr |-> wr]
    /\ UNCHANGED <<chatVars, arg, ret>>

SpecLog == InitLog /\ [][SaveEntry]_vars

Range(s) == {s[i] : i \in DOMAIN s}

\* C6: the log is append-only and capped at the most recent 200 entries: after a
\* save the log holds at most 200 entries, a save that changes the log adds its
\* entry at the end, and an entry stored before the save is still there unless it
\* was the oldest of 200 and the new entry displaced it.
C6_AppendOnlyCapped ==
    /\ Len(memFile.entries) <= MEMORY_CAP
    /\ lastSave.n > 0 =>
          LET before == lastSave.before.entries
              after == memFile.entries
          IN  /\ after # before => after[Len(after)] = lastSave.entry[1]
              /\ \A i \in DOMAIN before :
                    \/ before[i] \in Range(after)
                    \/ /\ i = 1
                       /\ Len(before) = MEMORY_CAP
                       /\ after = Append(Tail(before), lastSave.entry[1])

(***************************************************************************)
(* nearby_route, and SpecNearby: the locator on every answer of the POI    *)
(* source and every limit the caller may send                              *)
(***************************************************************************)
\* lines 556-567: j is the request body, limit absent (None) or an integer
nearby_route(j, poi) ==
    IF j.lat = None \/ j.lon = None
    THEN ErrorResponse(400, "lat and lon required")
    ELSE LET limit == IF j.limit = None THEN 5 ELSE j.limit[1]
             res == overpass_nearby(j.lat[1], j.lon[1], 2000, limit, poi)
         IN  IF res.raised THEN ErrorResponse(500, "Internal Server Error")
             ELSE [status |-> 200, body |-> res.value]

ElementLists ==
    UNION { { [i \in 1..n |-> Element(i, f[i].coords, TRUE, f[i].d)] :
                f \in [1..n -> [coords : BOOLEAN, d : 1..MaxDist]] } : n \in 0..MaxElems }

NearbyPois ==
    {[ok |-> FALSE, elements |-> <<>>]} \cup [ok : {TRUE}, elements : ElementLists]

Limits == {None} \cup {Some(n) : n \in (0 - MaxElems - 1)..(MaxElems + 1)}

InitNearby ==
    /\ NoRequests
    /\ memFile = MissingFile
    /\ lastSave = NoSave
    /\ arg \in [lat : Coordinates, lon : Coordinates, limit : Limits, poi : NearbyPois]
    /\ ret = None

\* POST /nearby
CallNearbyRoute ==
    /\ ret = None
    /\ ret' = Some([fn |-> "nearby_route", value |-> nearby_route(arg, arg.poi)])
    /\ UNCHANGED <<chatVars, memFile, lastSave, arg>>

\* the lookup of chat(), which runs only with both coordinates
CallNearestLookup ==
    /\ ret = None
    /\ arg.lat # None /\ arg.lon # None
    /\ ret' = Some([fn |-> "chat", value |-> NearestLookup(arg.lat, arg.lon, arg.poi).value])
    /\ UNCHANGED <<chatVars, memFile, lastSave, arg>>

NextNearby == CallNearbyRoute \/ CallNearestLookup

SpecNearby == InitNearby /\ [][NextNearby]_vars

Resolvable(poi) == {i \in DOMAIN poi.elements : poi.elements[i].coords}

\* the limit asked for; a limit below zero allows no place at all
RequestedLimit ==
    IF arg.limit = None THEN 5
    ELSE IF arg.limit[1] < 0 THEN 0
    ELSE arg.limit[1]

\* C11: a successful overpass_nearby result is in ascending order of distance_m,
\* holds only elements whose coordinates resolve, and never has more places than
\* the requested limit, for every limit the /nearby route accepts; the nearest
\* facility chat() reports is of least distance_m among the resolvable elements.
C11_SortedWithinLimit ==
    ret # None =>
        LET out == ret[1]
        IN  /\ (out.fn = "nearby_route" /\ out.value.status = 200 /\ out.value.body.ok) =>
                  LET places == out.value.body.places
                  IN  /\ \A i, k \in DOMAIN places :
                            i < k => places[i].distance_m <= places[k].distance_m
                      /\ \A i \in DOMAIN places :
                            /\ places[i].osm_id \in Resolvable(arg.poi)
                            /\ places[i].distance_m = arg.poi.elements[places[i].osm_id].d
                      /\ Len(places) <= RequestedLimit
            /\ out.fn = "chat" =>
                  IF arg.poi.ok /\ Resolvable(arg.poi) # {}
                  THEN /\ out.value # None
                       /\ out.value[1].osm_id \in Resolvable(arg.poi)
                       /\ \A i \in Resolvable(arg.poi) :
                             out.value[1].distance_m <= arg.poi.elements[i].d
                  ELSE out.value = None

====
